---- MODULE Spec2Model ----
(***************************************************************************)
(* A model of src/src/parse.rs, the configuration parser of swhkd:         *)
(*   - the line classifier and joiner (Line, load_to_lines, join_lines),   *)
(*   - the keybinding grammar parser (parse_keybinding) and KeyBinding's   *)
(*     PartialEq,                                                          *)
(*   - the config graph resolver (Config::load_and_merge).                 *)
(* Strings are sequences of one-character strings.  Each part of the       *)
(* parser has its own specification (SpecLines, SpecKey, SpecEq,           *)
(* SpecMerge); the variables of the other parts stay at their idle value.  *)
(***************************************************************************)
EXTENDS Integers, Sequences, FiniteSets, TLC

VARIABLES
    pc,            \* position of the running function
    text,          \* load_to_lines: the `content` argument
    lines,         \* the Vec<Line> load_to_lines returned / join_lines got
    joined_lines,  \* join_lines: `joined_lines`
    prev_line,     \* join_lines: `prev_line`
    idx,           \* join_lines: index in `lines` of the line the for loop takes next
    key,           \* parse_keybinding: the `key` argument
    line_nr,       \* parse_keybinding: the `line_nr` argument
    path,          \* parse_keybinding: the `path` argument
    result,        \* what parse_keybinding returned
    kb_a,          \* PartialEq for KeyBinding: a KeyBinding
    kb_b,          \* PartialEq for KeyBinding: another KeyBinding
    eq_ab,         \* kb_a == kb_b
    eq_ba,         \* kb_b == kb_a
    fs,            \* the file system: what reading each path gives
    seeds,         \* load_and_merge: the `configs` argument as passed
    configs,       \* load_and_merge: `configs`
    prev_count,    \* load_and_merge: `prev_count`
    current_count, \* load_and_merge: `current_count`
    merged,        \* what load_and_merge returned
    passes         \* load_and_merge: the passes of the while loop begun so far

lineVars == <<text, lines, joined_lines, prev_line, idx>>

keyVars == <<key, line_nr, path, result>>

eqVars == <<kb_a, kb_b, eq_ab, eq_ba>>

mergeVars == <<fs, seeds, configs, prev_count, current_count, merged, passes>>

vars == <<pc, lineVars, keyVars, eqVars, mergeVars>>

\* the value of a variable no function has written yet
Idle == "idle"

\* the same, for a variable that is to hold a Result
NoResult == [kind |-> "Idle"]

\* the same, for a variable that is to hold a Line
NoLine == [content |-> <<>>, linetype |-> "Other", linenumber |-> 0]

LinesIdle ==
    /\ text = <<>>
    /\ lines = <<>>
    /\ joined_lines = <<>>
    /\ prev_line = NoLine
    /\ idx = 0

KeyIdle == key = <<>> /\ line_nr = 0 /\ path = Idle /\ result = NoResult

EqIdle == kb_a = Idle /\ kb_b = Idle /\ eq_ab = FALSE /\ eq_ba = FALSE

MergeIdle ==
    /\ fs = Idle
    /\ seeds = <<>>
    /\ configs = <<>>
    /\ prev_count = 0
    /\ current_count = 0
    /\ merged = NoResult
    /\ passes = 0

(***************************************************************************)
(* Bounds of the model.                                                    *)
(***************************************************************************)
\* longest config text given to load_to_lines
MaxText == 6
\* most modifier tokens in front of the last token of a key line
MaxMods == 2
\* most sigil characters in front of the keysym name
MaxSigils == 3
\* longest modifier list of a KeyBinding that is compared
MaxModList == 2
\* most lines in the files of the file system, all together
MaxFsLines == 3
\* most configs in the list given to load_and_merge
MaxSeeds == 2

(***************************************************************************)
(* Strings.                                                                *)
(***************************************************************************)
BACKSLASH == "\\"
NEWLINE == "\n"

\* parse.rs:12
COMMENT_SYMBOL == "#"

\* the characters of the config texts of the model
TextChars == {"a", " ", "\t", BACKSLASH, COMMENT_SYMBOL, NEWLINE}

\* every string over chars of length at most n
StringsUpTo(chars, n) == UNION {[1..k -> chars] : k \in 0..n}

\* char::is_whitespace, on the characters of the model
IsWhitespace(c) == c \in {" ", "\t", NEWLINE, "\r"}

\* str::starts_with(char)
StartsWith(s, c) == Len(s) > 0 /\ s[1] = c

\* str::ends_with(char)
EndsWith(s, c) == Len(s) > 0 /\ s[Len(s)] = c

RECURSIVE TrimStart(_)
\* str::trim_start
TrimStart(s) ==
    IF Len(s) > 0 /\ IsWhitespace(s[1]) THEN TrimStart(Tail(s)) ELSE s

RECURSIVE TrimEnd(_)
\* str::trim_end
TrimEnd(s) ==
    IF Len(s) > 0 /\ IsWhitespace(s[Len(s)])
    THEN TrimEnd(SubSeq(s, 1, Len(s) - 1))
    ELSE s

\* str::trim
Trim(s) == TrimEnd(TrimStart(s))

\* the index of the first c in s, 0 when there is none
RECURSIVE IndexOf(_, _, _)
IndexOf(s, c, from) ==
    IF from > Len(s) THEN 0
    ELSE IF s[from] = c THEN from
    ELSE IndexOf(s, c, from + 1)

\* a line of str::lines without its line ending's carriage return
StripCR(s) == IF EndsWith(s, "\r") THEN SubSeq(s, 1, Len(s) - 1) ELSE s

RECURSIVE StrLines(_)
\* str::lines: the text split at its newlines, the last line optional-newline
\* terminated (a final empty line is no line)
StrLines(s) ==
    IF Len(s) = 0 THEN <<>>
    ELSE LET i == IndexOf(s, NEWLINE, 1)
         IN  IF i = 0 THEN <<s>>
             ELSE <<StripCR(SubSeq(s, 1, i - 1))>> \o StrLines(SubSeq(s, i + 1, Len(s)))

\* Option::Some
Some(value) == [some |-> TRUE, value |-> value]

\* Option::None
None == [some |-> FALSE]

\* str::strip_suffix(char)
StripSuffix(s, c) == IF EndsWith(s, c) THEN Some(SubSeq(s, 1, Len(s) - 1)) ELSE None

(***************************************************************************)
(* Line.                                                                   *)
(***************************************************************************)
\* what a panicking call leaves instead of a value
PANIC == "panic"

\* Line::new
NewLine(content, linetype, linenumber) ==
    [content |-> content, linetype |-> linetype, linenumber |-> linenumber]

\* Line::mark_line, as a bug would have it: a leading tab does not make a command
mark_line_NoTab(line) ==
    IF Len(Trim(line)) = 0 \/ StartsWith(Trim(line), COMMENT_SYMBOL) THEN "Other"
    ELSE IF StartsWith(line, " ") THEN "Command"
    ELSE "Key"

\* Line::mark_line
mark_line(line) ==
    IF Len(Trim(line)) = 0 \/ StartsWith(Trim(line), COMMENT_SYMBOL) THEN "Other"
    ELSE IF StartsWith(line, " ") \/ StartsWith(line, "\t") THEN "Command"
    ELSE "Key"

\* Line::from_str
from_str(content, linenumber) == NewLine(content, mark_line(content), linenumber)

\* Line::join_line, as a bug would have it: the other line's content is
\* appended whatever its type
join_line_AlwaysAppend(self, other) ==
    IF ~StripSuffix(self.content, BACKSLASH).some THEN PANIC
    ELSE NewLine(StripSuffix(self.content, BACKSLASH).value \o other.content,
                 self.linetype, self.linenumber)

\* Line::join_line, as a bug would have it: the joined line takes the number
\* of the line joined onto it
join_line_OtherNumber(self, other) ==
    IF ~StripSuffix(self.content, BACKSLASH).some THEN PANIC
    ELSE IF self.linetype = other.linetype
    THEN NewLine(StripSuffix(self.content, BACKSLASH).value \o other.content,
                 self.linetype, other.linenumber)
    ELSE NewLine(StripSuffix(self.content, BACKSLASH).value, self.linetype, other.linenumber)

\* Line::join_line; strip_suffix(..).unwrap() panics on a content without
\* the trailing backslash
join_line(self, other) ==
    IF ~StripSuffix(self.content, BACKSLASH).some THEN PANIC
    ELSE IF self.linetype = other.linetype
    THEN NewLine(StripSuffix(self.content, BACKSLASH).value \o other.content,
                 self.linetype, self.linenumber)
    ELSE NewLine(StripSuffix(self.content, BACKSLASH).value, self.linetype, self.linenumber)

\* Line::trim
LineTrim(self) == NewLine(Trim(self.content), self.linetype, self.linenumber)

\* Line::is_to_join, as a bug would have it: no line is taken as continued
is_to_join_Never(self) == FALSE

\* Line::is_to_join
is_to_join(self) == EndsWith(self.content, BACKSLASH)

RECURSIVE load_to_lines_from(_, _)
\* the for loop of load_to_lines over the physical lines `rest`, `linenumber`
\* lines already taken
load_to_lines_from(rest, linenumber) ==
    IF Len(rest) = 0 THEN <<>>
    ELSE LET current_line == from_str(Head(rest), linenumber + 1)
         IN  IF current_line.linetype = "Other"
             THEN load_to_lines_from(Tail(rest), linenumber + 1)
             ELSE <<current_line>> \o load_to_lines_from(Tail(rest), linenumber + 1)

\* load_to_lines
load_to_lines(content) == load_to_lines_from(StrLines(content), 0)

(***************************************************************************)
(* SpecLines: load_to_lines on a text, then join_lines on its result, one  *)
(* step per iteration of join_lines' for loop.                             *)
(*   pc: "text" -> "loaded" -> "joining" -> "joined", or "loaded" -> PANIC *)
(***************************************************************************)

InitLines ==
    /\ pc = "text"
    /\ text \in StringsUpTo(TextChars, MaxText)
    /\ lines = <<>>
    /\ joined_lines = <<>>
    /\ prev_line = NoLine
    /\ idx = 0
    /\ KeyIdle
    /\ EqIdle
    /\ MergeIdle

\* let lines = load_to_lines(content);
LoadToLines ==
    /\ pc = "text"
    /\ lines' = load_to_lines(text)
    /\ pc' = "loaded"
    /\ UNCHANGED <<text, joined_lines, prev_line, idx, keyVars, eqVars, mergeVars>>

\* join_lines on a non-empty Vec, to the head of its for loop
JoinLinesBegin ==
    /\ pc = "loaded"
    /\ Len(lines) > 0
    /\ joined_lines' = <<>>
    /\ prev_line' = LineTrim(lines[1])
    /\ idx' = 2
    /\ pc' = "joining"
    /\ UNCHANGED <<text, lines, keyVars, eqVars, mergeVars>>

\* join_lines on an empty Vec: lines[0] is out of bounds and panics
JoinLinesPanic ==
    /\ pc = "loaded"
    /\ Len(lines) = 0
    /\ pc' = PANIC
    /\ UNCHANGED <<lineVars, keyVars, eqVars, mergeVars>>

\* one iteration of `for line in lines.iter().skip(1)`
JoinLinesStep ==
    /\ pc = "joining"
    /\ idx <= Len(lines)
    /\ LET line == lines[idx]
       IN  IF ~is_to_join(prev_line)
           THEN /\ joined_lines' = Append(joined_lines, prev_line)
                /\ prev_line' = LineTrim(line)
           ELSE /\ prev_line' = join_line(prev_line, LineTrim(line))
                /\ UNCHANGED joined_lines
    /\ idx' = idx + 1
    /\ UNCHANGED <<pc, text, lines, keyVars, eqVars, mergeVars>>

\* after the loop: joined_lines.push(prev_line); joined_lines
JoinLinesEnd ==
    /\ pc = "joining"
    /\ idx > Len(lines)
    /\ joined_lines' = Append(joined_lines, prev_line)
    /\ pc' = "joined"
    /\ UNCHANGED <<text, lines, prev_line, idx, keyVars, eqVars, mergeVars>>

NextLines ==
    \/ LoadToLines
    \/ JoinLinesBegin
    \/ JoinLinesPanic
    \/ JoinLinesStep
    \/ JoinLinesEnd

SpecLines == InitLines /\ [][NextLines]_vars

(***************************************************************************)
(* Symbol tables.                                                          *)
(***************************************************************************)
UpperCase == <<"A", "B", "C", "D", "E", "F", "G", "H", "I", "J", "K", "L", "M",
               "N", "O", "P", "Q", "R", "S", "T", "U", "V", "W", "X", "Y", "Z">>

LowerCase == <<"a", "b", "c", "d", "e", "f", "g", "h", "i", "j", "k", "l", "m",
               "n", "o", "p", "q", "r", "s", "t", "u", "v", "w", "x", "y", "z">>

\* char::to_lowercase, on ASCII
ToLowerChar(c) ==
    IF \E i \in 1..Len(UpperCase) : UpperCase[i] = c
    THEN LowerCase[CHOOSE i \in 1..Len(UpperCase) : UpperCase[i] = c]
    ELSE c

\* str::to_lowercase
to_lowercase(s) == [i \in 1..Len(s) |-> ToLowerChar(s[i])]

\* the arms of match_modifier: <<lowercase token, Modifier>>
ModifierTable == {
    <<<<"s", "u", "p", "e", "r">>, "Super">>,
    <<<<"m", "o", "d", "4">>, "Super">>,
    <<<<"a", "l", "t">>, "Alt">>,
    <<<<"m", "o", "d", "1">>, "Alt">>,
    <<<<"c", "o", "n", "t", "r", "o", "l">>, "Control">>,
    <<<<"c", "t", "r", "l">>, "Control">>,
    <<<<"s", "h", "i", "f", "t">>, "Shift">>
}

\* the arms of match_keysym: <<lowercase token, evdev::Key>>
KeysymTable == {
    <<<<"q">>, "KEY_Q">>,
    <<<<"w">>, "KEY_W">>,
    <<<<"e">>, "KEY_E">>,
    <<<<"r">>, "KEY_R">>,
    <<<<"t">>, "KEY_T">>,
    <<<<"y">>, "KEY_Y">>,
    <<<<"u">>, "KEY_U">>,
    <<<<"i">>, "KEY_I">>,
    <<<<"o">>, "KEY_O">>,
    <<<<"p">>, "KEY_P">>,
    <<<<"a">>, "KEY_A">>,
    <<<<"s">>, "KEY_S">>,
    <<<<"d">>, "KEY_D">>,
    <<<<"f">>, "KEY_F">>,
    <<<<"g">>, "KEY_G">>,
    <<<<"h">>, "KEY_H">>,
    <<<<"j">>, "KEY_J">>,
    <<<<"k">>, "KEY_K">>,
    <<<<"l">>, "KEY_L">>,
    <<<<"z">>, "KEY_Z">>,
    <<<<"x">>, "KEY_X">>,
    <<<<"c">>, "KEY_C">>,
    <<<<"v">>, "KEY_V">>,
    <<<<"b">>, "KEY_B">>,
    <<<<"n">>, "KEY_N">>,
    <<<<"m">>, "KEY_M">>,
    <<<<"1">>, "KEY_1">>,
    <<<<"2">>, "KEY_2">>,
    <<<<"3">>, "KEY_3">>,
    <<<<"4">>, "KEY_4">>,
    <<<<"5">>, "KEY_5">>,
    <<<<"6">>, "KEY_6">>,
    <<<<"7">>, "KEY_7">>,
    <<<<"8">>, "KEY_8">>,
    <<<<"9">>, "KEY_9">>,
    <<<<"0">>, "KEY_0">>,
    <<<<"e", "s", "c", "a", "p", "e">>, "KEY_ESC">>,
    <<<<"b", "a", "c", "k", "s", "p", "a", "c", "e">>, "KEY_BACKSPACE">>,
    <<<<"r", "e", "t", "u", "r", "n">>, "KEY_ENTER">>,
    <<<<"e", "n", "t", "e", "r">>, "KEY_ENTER">>,
    <<<<"t", "a", "b">>, "KEY_TAB">>,
    <<<<"s", "p", "a", "c", "e">>, "KEY_SPACE">>,
    <<<<"p", "l", "u", "s">>, "KEY_KPPLUS">>,
    <<<<"m", "i", "n", "u", "s">>, "KEY_MINUS">>,
    <<<<"-">>, "KEY_MINUS">>,
    <<<<"e", "q", "u", "a", "l">>, "KEY_EQUAL">>,
    <<<<"=">>, "KEY_EQUAL">>,
    <<<<"g", "r", "a", "v", "e">>, "KEY_GRAVE">>,
    <<<<"`">>, "KEY_GRAVE">>,
    <<<<"p", "r", "i", "n", "t">>, "KEY_SYSRQ">>,
    <<<<"v", "o", "l", "u", "m", "e", "u", "p">>, "KEY_VOLUMEUP">>,
    <<<<"x", "f", "8", "6", "a", "u", "d", "i", "o", "r", "a", "i", "s", "e", "v", "o", "l", "u", "m", "e">>, "KEY_VOLUMEUP">>,
    <<<<"v", "o", "l", "u", "m", "e", "d", "o", "w", "n">>, "KEY_VOLUMEDOWN">>,
    <<<<"x", "f", "8", "6", "a", "u", "d", "i", "o", "l", "o", "w", "e", "r", "v", "o", "l", "u", "m", "e">>, "KEY_VOLUMEDOWN">>,
    <<<<"m", "u", "t", "e">>, "KEY_MUTE">>,
    <<<<"x", "f", "8", "6", "a", "u", "d", "i", "o", "m", "u", "t", "e">>, "KEY_MUTE">>,
    <<<<"b", "r", "i", "g", "h", "t", "n", "e", "s", "s", "u", "p">>, "KEY_BRIGHTNESSUP">>,
    <<<<"x", "f", "8", "6", "m", "o", "n", "b", "r", "i", "g", "h", "t", "n", "e", "s", "s", "u", "p">>, "KEY_BRIGHTNESSUP">>,
    <<<<"b", "r", "i", "g", "h", "t", "n", "e", "s", "s", "d", "o", "w", "n">>, "KEY_BRIGHTNESSDOWN">>,
    <<<<"x", "f", "8", "6", "m", "o", "n", "b", "r", "i", "g", "h", "t", "n", "e", "s", "s", "d", "o", "w", "n">>, "KEY_BRIGHTNESSDOWN">>,
    <<<<"x", "f", "8", "6", "a", "u", "d", "i", "o", "p", "l", "a", "y">>, "KEY_PLAYPAUSE">>,
    <<<<"x", "f", "8", "6", "a", "u", "d", "i", "o", "p", "r", "e", "v">>, "KEY_PREVIOUSSONG">>,
    <<<<"x", "f", "8", "6", "a", "u", "d", "i", "o", "n", "e", "x", "t">>, "KEY_NEXTSONG">>,
    <<<<"x", "f", "8", "6", "a", "u", "d", "i", "o", "s", "t", "o", "p">>, "KEY_STOP">>,
    <<<<"x", "f", "8", "6", "a", "u", "d", "i", "o", "m", "e", "d", "i", "a">>, "KEY_MEDIA">>,
    <<<<",">>, "KEY_COMMA">>,
    <<<<"c", "o", "m", "m", "a">>, "KEY_COMMA">>,
    <<<<".">>, "KEY_DOT">>,
    <<<<"d", "o", "t">>, "KEY_DOT">>,
    <<<<"p", "e", "r", "i", "o", "d">>, "KEY_DOT">>,
    <<<<"/">>, "KEY_SLASH">>,
    <<<<"q", "u", "e", "s", "t", "i", "o", "n">>, "KEY_QUESTION">>,
    <<<<"s", "l", "a", "s", "h">>, "KEY_SLASH">>,
    <<<<"b", "a", "c", "k", "s", "l", "a", "s", "h">>, "KEY_BACKSLASH">>,
    <<<<"l", "e", "f", "t", "b", "r", "a", "c", "e">>, "KEY_LEFTBRACE">>,
    <<<<"[">>, "KEY_LEFTBRACE">>,
    <<<<"b", "r", "a", "c", "k", "e", "t", "l", "e", "f", "t">>, "KEY_LEFTBRACE">>,
    <<<<"r", "i", "g", "h", "t", "b", "r", "a", "c", "e">>, "KEY_RIGHTBRACE">>,
    <<<<"]">>, "KEY_RIGHTBRACE">>,
    <<<<"b", "r", "a", "c", "k", "e", "t", "r", "i", "g", "h", "t">>, "KEY_RIGHTBRACE">>,
    <<<<";">>, "KEY_SEMICOLON">>,
    <<<<"s", "e", "m", "i", "c", "o", "l", "o", "n">>, "KEY_SEMICOLON">>,
    <<<<"'">>, "KEY_APOSTROPHE">>,
    <<<<"a", "p", "o", "s", "t", "r", "o", "p", "h", "e">>, "KEY_APOSTROPHE">>,
    <<<<"l", "e", "f", "t">>, "KEY_LEFT">>,
    <<<<"r", "i", "g", "h", "t">>, "KEY_RIGHT">>,
    <<<<"u", "p">>, "KEY_UP">>,
    <<<<"d", "o", "w", "n">>, "KEY_DOWN">>,
    <<<<"p", "a", "u", "s", "e">>, "KEY_PAUSE">>,
    <<<<"h", "o", "m", "e">>, "KEY_HOME">>,
    <<<<"d", "e", "l", "e", "t", "e">>, "KEY_DELETE">>,
    <<<<"i", "n", "s", "e", "r", "t">>, "KEY_INSERT">>,
    <<<<"e", "n", "d">>, "KEY_END">>,
    <<<<"p", "r", "i", "o", "r">>, "KEY_PAGEDOWN">>,
    <<<<"n", "e", "x", "t">>, "KEY_PAGEUP">>,
    <<<<"p", "a", "g", "e", "d", "o", "w", "n">>, "KEY_PAGEDOWN">>,
    <<<<"p", "a", "g", "e", "u", "p">>, "KEY_PAGEUP">>,
    <<<<"f", "1">>, "KEY_F1">>,
    <<<<"f", "2">>, "KEY_F2">>,
    <<<<"f", "3">>, "KEY_F3">>,
    <<<<"f", "4">>, "KEY_F4">>,
    <<<<"f", "5">>, "KEY_F5">>,
    <<<<"f", "6">>, "KEY_F6">>,
    <<<<"f", "7">>, "KEY_F7">>,
    <<<<"f", "8">>, "KEY_F8">>,
    <<<<"f", "9">>, "KEY_F9">>,
    <<<<"f", "1", "0">>, "KEY_F10">>,
    <<<<"f", "1", "1">>, "KEY_F11">>,
    <<<<"f", "1", "2">>, "KEY_F12">>,
    <<<<"f", "1", "3">>, "KEY_F13">>,
    <<<<"f", "1", "4">>, "KEY_F14">>,
    <<<<"f", "1", "5">>, "KEY_F15">>,
    <<<<"f", "1", "6">>, "KEY_F16">>,
    <<<<"f", "1", "7">>, "KEY_F17">>,
    <<<<"f", "1", "8">>, "KEY_F18">>,
    <<<<"f", "1", "9">>, "KEY_F19">>,
    <<<<"f", "2", "0">>, "KEY_F20">>,
    <<<<"f", "2", "1">>, "KEY_F21">>,
    <<<<"f", "2", "2">>, "KEY_F22">>,
    <<<<"f", "2", "3">>, "KEY_F23">>,
    <<<<"f", "2", "4">>, "KEY_F24">>
}

\* a `match` over a table of string arms, `_ => None` last
MatchIn(table, s) ==
    IF \E e \in table : e[1] = s
    THEN (CHOOSE e \in table : e[1] = s)[2]
    ELSE "None"

\* match_modifier
match_modifier(modifier) == MatchIn(ModifierTable, to_lowercase(modifier))

\* match_keysym
match_keysym(keysym) == MatchIn(KeysymTable, to_lowercase(keysym))

(***************************************************************************)
(* KeyBinding and parse_keybinding.                                        *)
(***************************************************************************)
\* the struct KeyBinding
KeyBinding(keysym, modifiers, on_release, send) ==
    [keysym |-> keysym, modifiers |-> modifiers, send |-> send, on_release |-> on_release]

\* Vec::contains
Contains(v, x) == \E i \in 1..Len(v) : v[i] = x

\* impl PartialEq for KeyBinding: eq
KeyBindingEq(self, other) ==
    /\ self.keysym = other.keysym
    /\ \A i \in 1..Len(self.modifiers) : Contains(other.modifiers, self.modifiers[i])
    /\ Len(self.modifiers) = Len(other.modifiers)
    /\ self.send = other.send
    /\ self.on_release = other.on_release

\* Ok(KeyBinding { .. })
Ok(value) == [kind |-> "Ok", value |-> value]

\* Err(Error::InvalidConfig(ParseError::<error>(path, line_nr)))
InvalidConfig(error, p, nr) ==
    [kind |-> "Err", error |-> error, path |-> p, line_nr |-> nr]

RECURSIVE Split(_, _)
\* str::split(char): at least one piece, the pieces between the separators
Split(s, c) ==
    LET i == IndexOf(s, c, 1)
    IN  IF i = 0 THEN <<s>>
        ELSE <<SubSeq(s, 1, i - 1)>> \o Split(SubSeq(s, i + 1, Len(s)), c)

\* key.split('+').map(|x| x.trim()).collect()
Tokens(k) == LET pieces == Split(k, "+") IN [i \in 1..Len(pieces) |-> Trim(pieces[i])]

\* str::starts_with(&str)
StartsWithStr(s, prefix) ==
    Len(s) >= Len(prefix) /\ SubSeq(s, 1, Len(prefix)) = prefix

\* parse_keybinding::strip_prefix, as a bug would have it: one sigil is stripped
strip_prefix_Once(token) ==
    IF StartsWith(token, "@") \/ StartsWith(token, "~") THEN Tail(token) ELSE token

RECURSIVE strip_prefix(_)
\* parse_keybinding::strip_prefix
strip_prefix(token) ==
    IF StartsWith(token, "@") \/ StartsWith(token, "~")
    THEN strip_prefix(Tail(token))
    ELSE token

RECURSIVE MatchModifiers(_)
\* the for loop of parse_keybinding over the tokens before the last: the
\* modifiers pushed, or None at the first token match_modifier refuses
MatchModifiers(tokens) ==
    IF Len(tokens) = 0 THEN Some(<<>>)
    ELSE IF match_modifier(Head(tokens)) = "None" THEN None
    ELSE LET rest == MatchModifiers(Tail(tokens))
         IN  IF ~rest.some THEN None
             ELSE Some(<<match_modifier(Head(tokens))>> \o rest.value)

\* parse_keybinding, as a bug would have it: an unknown keysym is reported
\* before the modifiers are looked at
parse_keybinding_KeysymFirst(k, nr, p) ==
    LET tokens == Tokens(k)
        last_token == tokens[Len(tokens)]
        on_release == StartsWith(last_token, "@") \/ StartsWithStr(last_token, <<"~", "@">>)
        send == StartsWith(last_token, "~") \/ StartsWithStr(last_token, <<"@", "~">>)
        keysym == match_keysym(strip_prefix(last_token))
        modifiers == MatchModifiers(SubSeq(tokens, 1, Len(tokens) - 1))
    IN  IF keysym = "None" THEN InvalidConfig("UnknownSymbol", p, nr)
        ELSE IF ~modifiers.some THEN InvalidConfig("InvalidModifier", p, nr)
        ELSE Ok(KeyBinding(keysym, modifiers.value, on_release, send))

\* parse_keybinding; tokens.last() is never None, split gives at least one piece
parse_keybinding(k, nr, p) ==
    LET tokens == Tokens(k)
        last_token == tokens[Len(tokens)]
        on_release == StartsWith(last_token, "@") \/ StartsWithStr(last_token, <<"~", "@">>)
        send == StartsWith(last_token, "~") \/ StartsWithStr(last_token, <<"@", "~">>)
        keysym == match_keysym(strip_prefix(last_token))
        modifiers == MatchModifiers(SubSeq(tokens, 1, Len(tokens) - 1))
    IN  IF ~modifiers.some THEN InvalidConfig("InvalidModifier", p, nr)
        ELSE IF keysym # "None" THEN Ok(KeyBinding(keysym, modifiers.value, on_release, send))
        ELSE InvalidConfig("UnknownSymbol", p, nr)

(***************************************************************************)
(* SpecKey: parse_keybinding on one key line.                              *)
(*   pc: "key" -> "parsed"                                                 *)
(***************************************************************************)
\* tokens put in front of the last one: modifier aliases (one in mixed case),
\* a word that is no modifier, and the empty token
ModTokens == {<<"s", "u", "p", "e", "r">>, <<"S", "h", "i", "f", "t">>,
              <<"n", "o", "p", "e">>, <<>>}

\* names put after the sigils: keysym names (one in upper case), a word that
\* is no keysym, and the empty name
KeyNames == {<<"q">>, <<"F", "1">>, <<"x", "y", "z">>, <<>>}

SigilChars == {"@", "~"}

\* the separators the tokens are joined with
Separators == {<<"+">>, <<" ", "+", " ">>}

RECURSIVE JoinWith(_, _)
\* the tokens with the separator between them
JoinWith(tokens, sep) ==
    IF Len(tokens) = 1 THEN tokens[1]
    ELSE tokens[1] \o sep \o JoinWith(Tail(tokens), sep)

\* the key lines of the model
KeyLines ==
    {JoinWith(mods \o <<sigils \o name>>, sep) :
        mods \in StringsUpTo(ModTokens, MaxMods),
        sigils \in StringsUpTo(SigilChars, MaxSigils),
        name \in KeyNames,
        sep \in Separators}

\* the config files key lines come from
ConfigPaths == {"swhkdrc", "extra.conf"}

\* the line numbers key lines are given
LineNumbers == {1, 7}

InitKey ==
    /\ pc = "key"
    /\ key \in KeyLines
    /\ line_nr \in LineNumbers
    /\ path \in ConfigPaths
    /\ result = NoResult
    /\ LinesIdle
    /\ EqIdle
    /\ MergeIdle

\* parse_keybinding(key, line_nr, path)
ParseKeybinding ==
    /\ pc = "key"
    /\ result' = parse_keybinding(key, line_nr, path)
    /\ pc' = "parsed"
    /\ UNCHANGED <<key, line_nr, path, lineVars, eqVars, mergeVars>>

NextKey == ParseKeybinding

SpecKey == InitKey /\ [][NextKey]_vars

(***************************************************************************)
(* SpecEq: two KeyBindings compared both ways.                             *)
(*   pc: "eq" -> "compared"                                                *)
(***************************************************************************)
\* the enum Modifier
Modifier == {"Super", "Alt", "Control", "Shift"}

\* the KeyBindings of the model
KeyBindings ==
    {KeyBinding(keysym, modifiers, on_release, send) :
        keysym \in {"KEY_Q", "KEY_A"},
        modifiers \in StringsUpTo(Modifier, MaxModList),
        on_release \in BOOLEAN,
        send \in BOOLEAN}

InitEq ==
    /\ pc = "eq"
    /\ kb_a \in KeyBindings
    /\ kb_b \in KeyBindings
    /\ eq_ab = FALSE
    /\ eq_ba = FALSE
    /\ LinesIdle
    /\ KeyIdle
    /\ MergeIdle

\* kb_a == kb_b and kb_b == kb_a
Compare ==
    /\ pc = "eq"
    /\ eq_ab' = KeyBindingEq(kb_a, kb_b)
    /\ eq_ba' = KeyBindingEq(kb_b, kb_a)
    /\ pc' = "compared"
    /\ UNCHANGED <<kb_a, kb_b, lineVars, keyVars, mergeVars>>

NextEq == Compare

SpecEq == InitEq /\ [][NextEq]_vars

(***************************************************************************)
(* Config.  The contents of a file are its lines, a line the pieces that   *)
(* line.split(' ') gives.                                                  *)
(***************************************************************************)
\* parse.rs:11
IMPORT_STATEMENT == "include"

\* what reading a path that is a file gives
File(contents) == [found |-> TRUE, contents |-> contents]

\* what File::open gives for a path that is no file
NotFound == [found |-> FALSE]

\* Err(Error::ConfigNotFound), by From<std::io::Error>
ConfigNotFound == [kind |-> "Err", error |-> "ConfigNotFound"]

\* load_file_contents
load_file_contents(p) == IF ~fs[p].found THEN ConfigNotFound ELSE Ok(fs[p].contents)

RECURSIVE get_imports(_)
\* Config::get_imports: the second piece of every line whose first piece is
\* the include keyword
get_imports(contents) ==
    IF Len(contents) = 0 THEN <<>>
    ELSE LET line == Head(contents)
         IN  IF line[1] = IMPORT_STATEMENT /\ Len(line) >= 2
             THEN <<line[2]>> \o get_imports(Tail(contents))
             ELSE get_imports(Tail(contents))

\* the struct Config
Config(p, contents, imports) == [path |-> p, contents |-> contents, imports |-> imports]

\* Config::new
ConfigNew(p) ==
    IF load_file_contents(p).kind = "Err" THEN load_file_contents(p)
    ELSE Ok(Config(p, load_file_contents(p).value, get_imports(load_file_contents(p).value)))

RECURSIVE LoadAll(_)
\* the for loop of Config::load_to_configs over the imports: the configs
\* pushed, or the error of the first import Config::new fails on
LoadAll(imports) ==
    IF Len(imports) = 0 THEN Ok(<<>>)
    ELSE IF ConfigNew(Head(imports)).kind = "Err" THEN ConfigNew(Head(imports))
    ELSE LET rest == LoadAll(Tail(imports))
         IN  IF rest.kind = "Err" THEN rest
             ELSE Ok(<<ConfigNew(Head(imports)).value>> \o rest.value)

\* Config::load_to_configs
load_to_configs(self) == LoadAll(self.imports)

\* the inner for loop of load_and_merge, as a bug would have it: the imports
\* are compared with the list as it was before any of them was pushed
PushNew_Batch(cfgs, imports) ==
    cfgs \o SelectSeq(imports, LAMBDA c : ~Contains(cfgs, c))

RECURSIVE PushNew(_, _)
\* the inner for loop of load_and_merge: every import that `cfgs` does not
\* contain is pushed
PushNew(cfgs, imports) ==
    IF Len(imports) = 0 THEN cfgs
    ELSE IF ~Contains(cfgs, Head(imports))
    THEN PushNew(Append(cfgs, Head(imports)), Tail(imports))
    ELSE PushNew(cfgs, Tail(imports))

RECURSIVE MergePass(_, _)
\* the outer for loop of load_and_merge over the clone `snapshot`: the list
\* after the pass, or the error that `?` returns
MergePass(cfgs, snapshot) ==
    IF Len(snapshot) = 0 THEN Ok(cfgs)
    ELSE LET loaded == load_to_configs(Head(snapshot))
         IN  IF loaded.kind = "Err" THEN loaded
             ELSE MergePass(PushNew(cfgs, loaded.value), Tail(snapshot))

\* the while condition of load_and_merge, as a bug would have it: an `if`,
\* true on entry only
LoopCondition_Once(prev, current) == prev = 0 /\ current # 0

\* the while condition of load_and_merge
LoopCondition(prev, current) == prev # current

\* `prev_count = configs.len()`, as a bug would have it: prev_count is not
\* brought up to date
NextPrevCount_Stale(cfgs) == 0

\* prev_count = configs.len()
NextPrevCount(cfgs) == Len(cfgs)

(***************************************************************************)
(* SpecMerge: Config::load_and_merge on a seed list, one step per pass of  *)
(* its while loop.                                                         *)
(*   pc: "merge" -> "merge" ... -> "ok", or -> "err"                       *)
(***************************************************************************)
\* the paths of the model
Paths == {"a", "b", "c"}

\* the lines of the files: an include of each path, and a line that is none
FileLines == {<<IMPORT_STATEMENT, p>> : p \in Paths} \cup {<<"super", "+", "a">>}

\* the files of at most n lines, and the path that is no file
FilesUpTo(n) == {File(c) : c \in StringsUpTo(FileLines, n)} \cup {NotFound}

\* the lines of what is at a path
FileSize(file) == IF file.found THEN Len(file.contents) ELSE 0

RECURSIVE FileSystemsOver(_, _)
\* the file systems on the paths ps with at most n lines in all
FileSystemsOver(ps, n) ==
    IF ps = {} THEN {<<>>}
    ELSE LET p == CHOOSE q \in ps : TRUE
         IN  UNION {{(p :> file) @@ f : f \in FileSystemsOver(ps \ {p}, n - FileSize(file))} :
                    file \in FilesUpTo(n)}

\* the file systems of the model: every path is a file or is not found
FileSystems == FileSystemsOver(Paths, MaxFsLines)

\* the configs Config::new gives in the file system f
LoadedConfigs(f) ==
    {Config(p, f[p].contents, get_imports(f[p].contents)) : p \in {q \in Paths : f[q].found}}

InitMerge ==
    /\ pc = "merge"
    /\ fs \in FileSystems
    /\ seeds \in StringsUpTo(LoadedConfigs(fs), MaxSeeds)
    /\ configs = seeds
    /\ prev_count = 0
    /\ current_count = Len(seeds)
    /\ merged = NoResult
    /\ passes = 0
    /\ LinesIdle
    /\ KeyIdle
    /\ EqIdle

\* the while condition holds and every import of the pass loads
PassRuns ==
    /\ pc = "merge"
    /\ LoopCondition(prev_count, current_count)
    /\ MergePass(configs, configs).kind = "Ok"

\* the while condition holds and an import of the pass does not load
PassErrs ==
    /\ pc = "merge"
    /\ LoopCondition(prev_count, current_count)
    /\ MergePass(configs, configs).kind = "Err"

\* the while condition does not hold
LoopOver ==
    /\ pc = "merge"
    /\ ~LoopCondition(prev_count, current_count)

\* one pass of the while loop that ends at `current_count = configs.len()`
Pass ==
    /\ PassRuns
    /\ prev_count' = NextPrevCount(configs)
    /\ configs' = MergePass(configs, configs).value
    /\ current_count' = Len(configs')
    /\ passes' = passes + 1
    /\ UNCHANGED <<pc, fs, seeds, merged, lineVars, keyVars, eqVars>>

\* one pass of the while loop that `?` leaves with the error of an import
PassFails ==
    /\ PassErrs
    /\ prev_count' = NextPrevCount(configs)
    /\ merged' = MergePass(configs, configs)
    /\ passes' = passes + 1
    /\ pc' = "err"
    /\ UNCHANGED <<fs, seeds, configs, current_count, lineVars, keyVars, eqVars>>

\* Ok(configs), once the while condition is false
ReturnOk ==
    /\ LoopOver
    /\ merged' = Ok(configs)
    /\ pc' = "ok"
    /\ UNCHANGED <<fs, seeds, configs, prev_count, current_count, passes,
                   lineVars, keyVars, eqVars>>

NextMerge ==
    \/ Pass
    \/ PassFails
    \/ ReturnOk

SpecMerge == InitMerge /\ [][NextMerge]_vars

(***************************************************************************)
(* Claims about the line classifier and joiner, under SpecLines.           *)
(***************************************************************************)
\* the physical lines of the text load_to_lines was given
PhysLines == StrLines(text)

\* whether load_to_lines has just returned
Loaded == pc = "loaded"

\* the first character of s that is no whitespace, "" when there is none
FirstInk(s) ==
    IF \A i \in 1..Len(s) : IsWhitespace(s[i]) THEN ""
    ELSE s[CHOOSE i \in 1..Len(s) :
               /\ ~IsWhitespace(s[i])
               /\ \A j \in 1..(i - 1) : IsWhitespace(s[j])]

\* the classification rule of the specification, read off the raw line
RuleType(raw) ==
    CASE FirstInk(raw) \in {"", "#"} -> "Other"
      [] FirstInk(raw) \notin {"", "#"} /\ raw[1] \in {" ", "\t"} -> "Command"
      [] OTHER -> "Key"

\* the physical line numbers load_to_lines is to retain
Retained == {i \in 1..Len(PhysLines) : RuleType(PhysLines[i]) # "Other"}

\* C9: mark_line gives Other iff the trimmed line is empty or starts with '#',
\* else Command iff the raw line begins with a space or a tab, else Key, never
\* Statement; load_to_lines keeps exactly the lines that are not Other, in
\* order, each with its raw content and its 1-based physical line number.
C9_MarkAndNumber ==
    Loaded =>
        /\ \A i \in 1..Len(PhysLines) :
              /\ mark_line(PhysLines[i]) = RuleType(PhysLines[i])
              /\ mark_line(PhysLines[i]) # "Statement"
        /\ Len(lines) = Cardinality(Retained)
        /\ \A k \in 1..Len(lines) :
              /\ lines[k].linenumber \in Retained
              /\ lines[k].content = PhysLines[lines[k].linenumber]
              /\ lines[k].linetype = RuleType(lines[k].content)
              /\ lines[k].linetype \in {"Key", "Command"}
              /\ k > 1 => lines[k - 1].linenumber < lines[k].linenumber

\* C9 witness: a comment or blank line was skipped before a retained line, and
\* a tab-indented command and a key line were both retained.
C9_Witness ==
    /\ pc = "loaded"
    /\ \E k \in 1..Len(lines) : lines[k].linenumber > k
    /\ \E k \in 1..Len(lines) :
          lines[k].linetype = "Command" /\ StartsWith(lines[k].content, "\t")
    /\ \E k \in 1..Len(lines) : lines[k].linetype = "Key"

\* C8: for a text with no retained line load_to_lines returns the empty
\* sequence, and join_lines on it returns the empty sequence and does not fail.
C8_EmptyJoinsToEmpty ==
    /\ (Loaded /\ Retained = {}) => lines = <<>>
    /\ lines = <<>> => pc # PANIC
    /\ (pc = "joined" /\ lines = <<>>) => joined_lines = <<>>

\* whether line i of ls is continued by line i + 1 of the same type
Continues(ls, i) ==
    /\ i < Len(ls)
    /\ EndsWith(Trim(ls[i].content), BACKSLASH)
    /\ ls[i].linetype = ls[i + 1].linetype

RECURSIVE RunEnd(_, _)
\* the last line of the maximal run that starts at line i
RunEnd(ls, i) == IF Continues(ls, i) THEN RunEnd(ls, i + 1) ELSE i

RECURSIVE RunContent(_, _, _)
\* the content of the run i..j: the trimmed contents, each continued line
\* without its trailing backslash
RunContent(ls, i, j) ==
    IF i = j THEN Trim(ls[j].content)
    ELSE LET t == Trim(ls[i].content)
         IN  SubSeq(t, 1, Len(t) - 1) \o RunContent(ls, i + 1, j)

RECURSIVE RunsFrom(_, _)
\* one line per maximal run of ls from line i on
RunsFrom(ls, i) ==
    IF i > Len(ls) THEN <<>>
    ELSE <<NewLine(RunContent(ls, i, RunEnd(ls, i)), ls[i].linetype, ls[i].linenumber)>>
         \o RunsFrom(ls, RunEnd(ls, i) + 1)

\* no line ending in a backslash is directly followed by a line of another type
NoMismatch(ls) ==
    \A i \in 1..(Len(ls) - 1) :
        EndsWith(Trim(ls[i].content), BACKSLASH) => ls[i].linetype = ls[i + 1].linetype

\* C4 as claimed: join_lines turns every maximal run of same-type lines, each
\* but the last ending in a backslash, into one line (concatenated trimmed
\* contents without the continuation backslashes, the run's type, the number
\* of its first line), in input order.
C4_RunsMergedAsClaimed ==
    pc = "joined" => joined_lines = RunsFrom(lines, 1)

\* C4 as amended: the same, for the inputs in which no line ending in a
\* backslash is directly followed by a line of a different type.
C4_RunsMerged ==
    (pc = "joined" /\ NoMismatch(lines)) => joined_lines = RunsFrom(lines, 1)

\* C4 witness: three retained lines, the first two of which were merged.
C4_Witness ==
    /\ pc = "joined"
    /\ NoMismatch(lines)
    /\ Len(lines) = 3
    /\ Continues(lines, 1)
    /\ Len(joined_lines) = 2

\* C10: an iteration of join_lines that finds the accumulated line ending in a
\* backslash and the next line of another type keeps the accumulated line's
\* type and number, removes only its one trailing backslash, appends nothing
\* of the next line, emits nothing and moves past the next line.
C10_MismatchedJoin ==
    [][(/\ pc = "joining"
        /\ idx <= Len(lines)
        /\ EndsWith(prev_line.content, BACKSLASH)
        /\ lines[idx].linetype # prev_line.linetype)
       => (/\ prev_line' = NewLine(SubSeq(prev_line.content, 1, Len(prev_line.content) - 1),
                                   prev_line.linetype, prev_line.linenumber)
           /\ joined_lines' = joined_lines
           /\ idx' = idx + 1)]_vars

\* C10 witness: a key line ending in a backslash, followed by a command line,
\* came out as the key line alone.
C10_Witness ==
    /\ pc = "joined"
    /\ Len(lines) = 2
    /\ EndsWith(Trim(lines[1].content), BACKSLASH)
    /\ lines[1].linetype = "Key"
    /\ lines[2].linetype = "Command"
    /\ Len(joined_lines) = 1
    /\ joined_lines[1].linetype = "Key"

\* whether the content of the i-th line join_lines has emitted ends with a
\* backslash
EmittedContinues(i) == EndsWith(joined_lines[i].content, BACKSLASH)

\* C11: no line join_lines emits inside its loop ends with a backslash, so in
\* what it returns only the last line, pushed after the loop, can end with
\* one.
C11_OnlyLastMayContinue ==
    /\ pc = "joining" => \A i \in 1..Len(joined_lines) : ~EmittedContinues(i)
    /\ pc = "joined" => \A i \in 1..(Len(joined_lines) - 1) : ~EmittedContinues(i)

\* C11 witness: three lines, the first ending in a backslash, came out as two:
\* the first two joined into a line without a trailing backslash, emitted
\* inside the loop, and a last line left ending in a dangling backslash.
C11_Witness ==
    /\ pc = "joined"
    /\ Len(lines) = 3
    /\ EndsWith(Trim(lines[1].content), BACKSLASH)
    /\ Len(joined_lines) = 2
    /\ ~EmittedContinues(1)
    /\ EmittedContinues(2)

(***************************************************************************)
(* Claims about parse_keybinding, under SpecKey.                           *)
(***************************************************************************)
\* the last token of the key line
LastToken == LET tokens == Tokens(key) IN tokens[Len(tokens)]

\* the tokens before the last
ModifierTokens == LET tokens == Tokens(key) IN SubSeq(tokens, 1, Len(tokens) - 1)

\* how many sigil characters the token starts with
SigilCount(token) ==
    CHOOSE n \in 0..Len(token) :
        /\ \A i \in 1..n : token[i] \in SigilChars
        /\ n < Len(token) => token[n + 1] \notin SigilChars

\* the leading sigils of the token
Sigils(token) == SubSeq(token, 1, SigilCount(token))

\* the token without its leading sigils
Unprefixed(token) == SubSeq(token, SigilCount(token) + 1, Len(token))

\* the last token without its sigils is in the keysym table
KeysymKnown ==
    LET name == to_lowercase(Unprefixed(LastToken))
    IN  \E e \in KeysymTable : e[1] = name

\* every token before the last is in the modifier table
ModifiersKnown ==
    LET tokens == ModifierTokens
    IN  \A i \in 1..Len(tokens) :
            LET name == to_lowercase(tokens[i])
            IN  \E e \in ModifierTable : e[1] = name

\* C6 as claimed: an unknown keysym gives UnknownSymbol whatever the other
\* tokens are; otherwise an unknown modifier gives InvalidModifier; otherwise
\* Ok; the error carries the path and line number passed in.
C6_KeysymErrorFirst ==
    pc = "parsed" =>
        IF ~KeysymKnown THEN result = InvalidConfig("UnknownSymbol", path, line_nr)
        ELSE IF ~ModifiersKnown THEN result = InvalidConfig("InvalidModifier", path, line_nr)
        ELSE result.kind = "Ok"

\* C6 as amended: an unknown modifier gives InvalidModifier whatever the last
\* token is; otherwise an unknown keysym gives UnknownSymbol; otherwise Ok; the
\* error carries the path and line number passed in.
C6_ModifierErrorFirst ==
    pc = "parsed" =>
        IF ~ModifiersKnown THEN result = InvalidConfig("InvalidModifier", path, line_nr)
        ELSE IF ~KeysymKnown THEN result = InvalidConfig("UnknownSymbol", path, line_nr)
        ELSE result.kind = "Ok"

\* C6 witness: a key line with an unknown modifier and an unknown keysym was
\* refused as InvalidModifier.
C6_Witness ==
    /\ pc = "parsed"
    /\ ~KeysymKnown
    /\ ~ModifiersKnown
    /\ result = InvalidConfig("InvalidModifier", path, line_nr)

\* C7 as claimed: with a last token of sigils and a keysym name (and
\* modifiers in front), the result is the KeyBinding of that keysym with
\* on_release iff '@' is among the sigils and send iff '~' is among them.
C7_FlagsFromAnySigil ==
    (pc = "parsed" /\ KeysymKnown /\ ModifiersKnown) =>
        /\ result.kind = "Ok"
        /\ result.value.keysym = MatchIn(KeysymTable, to_lowercase(Unprefixed(LastToken)))
        /\ result.value.on_release = Contains(Sigils(LastToken), "@")
        /\ result.value.send = Contains(Sigils(LastToken), "~")

\* C7 as amended: the same, with on_release iff '@' is the first or second
\* sigil and send iff '~' is the first or second sigil.
C7_FlagsFromFirstTwoSigils ==
    (pc = "parsed" /\ KeysymKnown /\ ModifiersKnown) =>
        /\ result.kind = "Ok"
        /\ result.value.keysym = MatchIn(KeysymTable, to_lowercase(Unprefixed(LastToken)))
        /\ result.value.on_release =
              (\E i \in 1..SigilCount(LastToken) : i <= 2 /\ LastToken[i] = "@")
        /\ result.value.send =
              (\E i \in 1..SigilCount(LastToken) : i <= 2 /\ LastToken[i] = "~")

\* C7 witness: "super + shift + ~@q", spaced or not, parsed to keysym Q with
\* both flags set.
C7_Witness ==
    /\ pc = "parsed"
    /\ LastToken = <<"~", "@", "q">>
    /\ Len(ModifierTokens) = 2
    /\ result.kind = "Ok"
    /\ result.value.keysym = "KEY_Q"
    /\ result.value.modifiers = <<"Super", "Shift">>
    /\ result.value.on_release
    /\ result.value.send

(***************************************************************************)
(* Claims about KeyBinding's equality, under SpecEq.                       *)
(***************************************************************************)
\* the set of the modifiers of a KeyBinding
ModifierSet(kb) == {kb.modifiers[i] : i \in 1..Len(kb.modifiers)}

\* C5: a == b holds exactly when keysym, send and on_release are the same and
\* the modifier lists have the same set of elements; so it is symmetric.
C5_SetBasedEq ==
    pc = "compared" =>
        /\ eq_ab = (/\ kb_a.keysym = kb_b.keysym
                    /\ kb_a.send = kb_b.send
                    /\ kb_a.on_release = kb_b.on_release
                    /\ ModifierSet(kb_a) = ModifierSet(kb_b))
        /\ eq_ab = eq_ba

(***************************************************************************)
(* Claims about Config::load_and_merge, under SpecMerge.                   *)
(***************************************************************************)
\* no two elements of the list are equal
NoDuplicates(v) == \A i, j \in 1..Len(v) : i # j => v[i] # v[j]

\* the paths the configs of the list include
ImportsOf(v) == UNION {{v[i].imports[k] : k \in 1..Len(v[i].imports)} : i \in 1..Len(v)}

\* the paths the files at the paths of ps include
IncludedBy(ps) ==
    UNION {{fs[p].contents[k][2] :
              k \in {n \in 1..Len(fs[p].contents) :
                        /\ fs[p].contents[n][1] = "include"
                        /\ Len(fs[p].contents[n]) >= 2}} :
           p \in {q \in ps : fs[q].found}}

RECURSIVE Closure(_)
\* the paths reachable from ps through include lines
Closure(ps) == IF IncludedBy(ps) \subseteq ps THEN ps ELSE Closure(ps \cup IncludedBy(ps))

\* the paths reachable from the seed configs through their imports
Reachable == Closure(ImportsOf(seeds))

\* the config of the list that was loaded from the path is in the list
Present(v, p) ==
    /\ fs[p].found
    /\ \E i \in 1..Len(v) : v[i].path = p /\ v[i].contents = fs[p].contents

\* the elements of the list
Elements(v) == {v[i] : i \in 1..Len(v)}

\* the configs that can ever be in the list: the seeds and what Config::new
\* gives for the files
Universe == Elements(seeds) \cup LoadedConfigs(fs)

\* what load_and_merge has left to do: the configs not yet in the list, then
\* the pass that finds nothing new, then the return
Measure ==
    2 * (Cardinality(Universe) - Cardinality(Elements(configs)))
    + (IF pc # "merge" THEN 0 ELSE IF prev_count # current_count THEN 2 ELSE 1)

\* C1: load_and_merge returns for every file system and seed list, also
\* when the includes form cycles or diamonds: until it has returned it has a
\* next step (a pass, or the return), every step brings a natural number
\* down, and it returns Ok after a pass that left the count as it was.
C1_Terminates ==
    /\ [][Measure' < Measure]_vars
    /\ [](Measure \in Nat)
    /\ [](pc = "merge" => PassRuns \/ PassErrs \/ LoopOver)
    /\ [](pc = "ok" => prev_count = current_count /\ current_count = Len(configs))

\* C1 witness: load_and_merge returned Ok on two files that include each
\* other, one of which also includes itself.
C1_Witness ==
    /\ pc = "ok"
    /\ passes >= 2
    /\ \E i, j \in 1..Len(configs) :
          /\ configs[i].path # configs[j].path
          /\ Contains(configs[i].imports, configs[j].path)
          /\ Contains(configs[j].imports, configs[i].path)
          /\ Contains(configs[i].imports, configs[i].path)

\* C2: the list returned with Ok starts with the seeds, holds for every
\* import of every config in it the config loaded from that path, and so
\* holds the config of every path reachable from the seeds.
C2_ClosedUnderImports ==
    pc = "ok" =>
        /\ merged = Ok(configs)
        /\ SubSeq(configs, 1, Len(seeds)) = seeds
        /\ \A p \in ImportsOf(configs) : Present(configs, p)
        /\ \A p \in Reachable : Present(configs, p)

\* C2 witness: from the one seed a, which includes only b, which includes
\* only c, the list returned holds a, b and c.
C2_Witness ==
    /\ pc = "ok"
    /\ Len(seeds) = 1
    /\ seeds[1].path = "a"
    /\ seeds[1].imports = <<"b">>
    /\ get_imports(fs["b"].contents) = <<"c">>
    /\ Len(configs) = 3

\* C3 as claimed: whatever the seed list, the list returned with Ok holds no
\* two equal configs.
C3_NoDuplicatesReturned == pc = "ok" => NoDuplicates(configs)

\* C3 as amended: when no two seeds are equal, the list holds no two equal
\* configs, at every pass and when it is returned.
C3_NoDuplicatesFromDistinctSeeds == NoDuplicates(seeds) => NoDuplicates(configs)

\* C3 witness: a diamond (two distinct seeds that include the same file,
\* twice in one of them) was merged and the file is in the list once.
C3_Witness ==
    /\ pc = "ok"
    /\ Len(seeds) = 2
    /\ NoDuplicates(seeds)
    /\ \E p \in Paths :
          /\ Contains(seeds[1].imports, p)
          /\ seeds[2].imports = <<p, p>>
          /\ p \notin {seeds[1].path, seeds[2].path}
    /\ Len(configs) = 3

====
